---- MODULE Spec2Model ----
(***************************************************************************)
(* img2char.py: convert a 5x8 image to the byte array of an LED display.   *)
(*                                                                         *)
(* One process run is: the __main__ block calls the click command, click   *)
(* validates the path argument and invokes the callback, the callback      *)
(* opens the image, checks its size, converts it to 1-bit data, packs 8    *)
(* rows of 5 pixels into 8 bytes, pads, prints; the __main__ block's       *)
(* `except Exception` prints what the callback raised.  The file is then   *)
(* converted again by a fresh process, to compare runs.                    *)
(*                                                                         *)
(* Text is a sequence of characters; the fixed pieces of a message are     *)
(* single tokens ("error: ").  stdout is the stream of everything printed. *)
(***************************************************************************)
EXTENDS Integers, Sequences, FiniteSets, TLC

VARIABLES
    file,       \* the input: [fault, size, bits]; never written by the program
    run,        \* which process run this is (1..Runs)
    pc,         \* position of the running process
    img,        \* local img (line 9): [size, bits]
    bmp,        \* local bmp (line 13): the 1-bit pixel data, row-major
    data,       \* local data (line 14): the bytearray
    y,          \* rows of the loop of line 15 completed so far
    scratch,    \* local scratch (line 16)
    size,       \* local size (line 22)
    exc,        \* the exception in flight, or NoExc
    stdout,     \* characters printed to standard output in this run
    stderr,     \* lines click wrote to standard error in this run
    exitCode,   \* exit status of this run, Running until the process ends
    trace,      \* labels of the statements this run has executed
    hist        \* what the earlier runs printed and returned

vars == <<file, run, pc, img, bmp, data, y, scratch, size, exc,
          stdout, stderr, exitCode, trace, hist>>

-----------------------------------------------------------------------------
(* Bounds of the model *)

\* an input image differs from a base image in at most MaxFlip pixels
MaxFlip == 1
\* the same file is converted Runs times
Runs == 2

-----------------------------------------------------------------------------
(* Constants of the program *)

ReqSize == <<5, 8>>         \* line 10: img.size != (5, 8)
RowRange == 8               \* line 15: range(8)
ColRange == 5               \* line 17: range(5)
Stride == 5                 \* line 18: y * 5 + x
TopBit == 7                 \* line 19: 7 - x
PadTo == 8                  \* line 23: 8 - size
White == 255                \* a set pixel of a mode "1" image
Black == 0
Running == -1               \* no exit status yet

-----------------------------------------------------------------------------
(* Integer helpers *)

Pow2(n) == 2 ^ n

\* a << n on Python's unbounded integers
ShiftLeft(a, n) == a * Pow2(n)

\* a | b on non-negative integers
RECURSIVE BitOr(_, _)
BitOr(a, b) ==
    IF a = 0 THEN b
    ELSE IF b = 0 THEN a
    ELSE (IF a % 2 = 1 \/ b % 2 = 1 THEN 1 ELSE 0) + 2 * BitOr(a \div 2, b \div 2)

-----------------------------------------------------------------------------
(* Packing: lines 15-20 *)

\* int(not bool(val)): 1 for a zero pixel, 0 for any other
NotBool_plain(val) == IF val = 0 THEN 0 ELSE 1
NotBool(val) == IF val = 0 THEN 1 ELSE 0

\* 7 - x, the bit of column x
ShiftAmt_low(x) == 4 - x
ShiftAmt(x) == TopBit - x

\* scratch = 0 at the start of a row, whatever the previous row left
ScratchInit_keep(prev) == prev
ScratchInit(prev) == 0

\* indexing bmp past its end raises IndexError
IndexErr == -1

\* the inner loop from column x on, s being scratch
RECURSIVE PackPixels(_, _, _, _)
PackPixels(b, yy, x, s) ==
    IF x >= ColRange THEN s
    ELSE IF yy * Stride + x + 1 \notin DOMAIN b THEN IndexErr
    ELSE PackPixels(b, yy, x + 1,
                    BitOr(ShiftLeft(NotBool(b[yy * Stride + x + 1]), ShiftAmt(x)), s))

\* scratch after the body of the outer loop for row yy
PackRow(b, yy, prev) == PackPixels(b, yy, 0, ScratchInit(prev))

-----------------------------------------------------------------------------
(* Formatting: lines 11, 24, 25, 32 *)

DigitChars == <<"0", "1", "2", "3", "4", "5", "6", "7",
                "8", "9", "a", "b", "c", "d", "e", "f">>

\* the digits of n >= 0 in the base, most significant first, no padding
RECURSIVE Digits(_, _)
Digits(n, base) ==
    IF n < base THEN <<DigitChars[n + 1]>>
    ELSE Digits(n \div base, base) \o <<DigitChars[(n % base) + 1]>>

RECURSIVE ZeroFill(_, _)
ZeroFill(s, width) == IF Len(s) >= width THEN s ELSE ZeroFill(<<"0">> \o s, width)

RECURSIVE Reverse(_)
Reverse(s) == IF s = <<>> THEN <<>> ELSE Append(Reverse(Tail(s)), Head(s))

\* f'{b:08b}'
Format08b_lsb(b) == Reverse(ZeroFill(Digits(b, 2), 8))
Format08b(b) == ZeroFill(Digits(b, 2), 8)

\* hex(b)
Hex(b) == <<"0", "x">> \o Digits(b, 16)

\* sep.join(parts)
RECURSIVE Join(_, _)
Join(parts, sep) ==
    IF parts = <<>> THEN <<>>
    ELSE IF Len(parts) = 1 THEN parts[1]
    ELSE parts[1] \o sep \o Join(Tail(parts), sep)

\* f'{img.size}': the repr of a tuple of two ints
TupleRepr(t) == <<"(">> \o Digits(t[1], 10) \o <<",", " ">> \o Digits(t[2], 10) \o <<")">>

\* f'unsupported image size {img.size}'
SizeMessage(t) == <<"unsupported image size ">> \o TupleRepr(t)

\* the stream after print(text)
PrintTo(stream, text) == stream \o text \o <<"\n">>

\* line 24
BinaryText(d) == Join([i \in 1..Len(d) |-> Format08b(d[i])], <<"\n">>)
\* line 25
HexText(d) == Join([i \in 1..Len(d) |-> Hex(d[i])], <<",", " ">>)

-----------------------------------------------------------------------------
(* Exceptions *)

NoExc == [kind |-> "none", msg |-> <<>>, code |-> 0]

\* an exception object; msg is str(err)
Exc(kind, msg) == [kind |-> kind, msg |-> msg, code |-> 0]

\* sys.exit(code) raises SystemExit, whose str is the code
SystemExit(code) == [kind |-> "SystemExit", msg |-> Digits(code, 10), code |-> code]

\* the classes derived from Exception; SystemExit derives from BaseException
ExceptionClasses == {"ValueError", "IndexError", "OSError", "UnidentifiedImageError"}

\* line 31: except Exception
Catches_bare(e) == TRUE
Catches_value(e) == e.kind = "ValueError"
Catches(e) == e.kind \in ExceptionClasses

\* the exit status click's standalone mode passes to sys.exit
UsageExit == 2              \* UsageError.exit_code
SuccessExit == 0            \* ctx.exit()
TracebackExit == 1          \* an exception nothing catches

\* the exit status when the handler has printed and the module ends
HandledExit_one == TracebackExit
HandledExit == 0

\* what click writes to standard error for a bad path argument
UsageText == <<"Usage: img2char.py [OPTIONS] IMAGE",
               "Try 'img2char.py --help' for help.",
               "",
               "Error: Invalid value for 'IMAGE'">>

OpenMessage == <<"cannot identify image file">>
LoadMessage == <<"image file is truncated">>
IndexMessage == <<"image index out of range">>
ByteMessage == <<"byte must be in range(0, 256)">>

-----------------------------------------------------------------------------
(* The inputs *)

Pixels == 1..(ReqSize[1] * ReqSize[2])

Uniform(n, v) == [i \in 1..n |-> v]

\* the sets of at most k pixel positions
RECURSIVE FlipSets(_)
FlipSets(k) ==
    IF k = 0 THEN {{}}
    ELSE LET P == FlipSets(k - 1) IN P \cup {S \cup {i} : S \in P, i \in Pixels}

Flip(b, S) == [i \in 1..Len(b) |-> IF i \in S THEN White - b[i] ELSE b[i]]

\* a two-tone pattern: v where (row + step * column) is even, the other tone elsewhere
Pattern(v, rowStep, colStep) ==
    [i \in Pixels |->
        IF (rowStep * ((i - 1) \div ReqSize[1]) + colStep * ((i - 1) % ReqSize[1])) % 2 = 0
        THEN v ELSE White - v]

\* uniform and checkerboard, in both polarities
BaseImages == {Pattern(v, k, k) : v \in {White, Black}, k \in {0, 1}}

\* the 1-bit data of the 5x8 images of the model
Images == {Flip(b, S) : b \in BaseImages, S \in FlipSets(MaxFlip)}

\* the other sizes
OtherSizes == {<<4, 8>>, <<5, 7>>, <<10, 10>>, <<8, 5>>, <<5, 9>>}

\* path: the path is missing, a directory or unreadable; open: Image.open
\* cannot decode the file; load: the header decodes and the pixel data does not
Faults == {"none", "path", "open", "load"}

\* a file that decodes is any image of the model; one that does not is a base
\* image or an image of another size: its pixels are never packed
Files ==
    {[fault |-> "none", size |-> ReqSize, bits |-> b] : b \in Images}
    \cup {[fault |-> f, size |-> ReqSize, bits |-> b] : f \in Faults, b \in BaseImages}
    \cup {[fault |-> f, size |-> s, bits |-> Uniform(s[1] * s[2], v)] :
              f \in Faults, s \in OtherSizes, v \in {White, Black}}

-----------------------------------------------------------------------------
(* The process *)

Init ==
    /\ file \in Files
    /\ run = 1
    /\ pc = "main"
    /\ img = [size |-> <<0, 0>>, bits |-> <<>>]
    /\ bmp = <<>>
    /\ data = <<>>
    /\ y = 0
    /\ scratch = 0
    /\ size = 0
    /\ exc = NoExc
    /\ stdout = <<>>
    /\ stderr = <<>>
    /\ exitCode = Running
    /\ trace = {}
    /\ hist = <<>>

\* raise e: click's main re-raises what is no ClickException, so it reaches line 31
Raise(e) ==
    /\ exc' = e
    /\ pc' = "except"

\* lines 30 and 5-6: click parses the arguments and checks the path; a bad
\* path is shown on standard error and ends in sys.exit(2)
ClickMain ==
    /\ pc = "main"
    /\ trace' = trace \cup {"main"}
    /\ IF file.fault = "path"
       THEN /\ stderr' = stderr \o UsageText
            /\ Raise(SystemExit(UsageExit))
       ELSE /\ pc' = "open"
            /\ UNCHANGED <<stderr, exc>>
    /\ UNCHANGED <<file, run, img, bmp, data, y, scratch, size, stdout, exitCode, hist>>

\* line 9: img = Image.open(image)
Open ==
    /\ pc = "open"
    /\ trace' = trace \cup {"open"}
    /\ IF file.fault = "open"
       THEN /\ Raise(Exc("UnidentifiedImageError", OpenMessage))
            /\ UNCHANGED img
       ELSE /\ img' = [size |-> file.size, bits |-> file.bits]
            /\ pc' = "check"
            /\ UNCHANGED exc
    /\ UNCHANGED <<file, run, bmp, data, y, scratch, size, stdout, stderr, exitCode, hist>>

\* line 10: the sizes the check lets through
SizeOk_width(s) == s[1] = ReqSize[1]
SizeOk(s) == s = ReqSize

\* lines 10-11
SizeCheck ==
    /\ pc = "check"
    /\ trace' = trace \cup {"check"}
    /\ IF SizeOk(img.size)
       THEN /\ pc' = "convert"
            /\ UNCHANGED exc
       ELSE Raise(Exc("ValueError", SizeMessage(img.size)))
    /\ UNCHANGED <<file, run, img, bmp, data, y, scratch, size, stdout, stderr, exitCode, hist>>

\* line 13: bmp = img.convert('1').getdata(); the pixel data is decoded here
Convert ==
    /\ pc = "convert"
    /\ trace' = trace \cup {"convert"}
    /\ IF file.fault = "load"
       THEN /\ Raise(Exc("OSError", LoadMessage))
            /\ UNCHANGED bmp
       ELSE /\ bmp' = img.bits
            /\ pc' = "newdata"
            /\ UNCHANGED exc
    /\ UNCHANGED <<file, run, img, data, y, scratch, size, stdout, stderr, exitCode, hist>>

\* line 14: bytearray()
EmptyBuffer_kept(old) == old
EmptyBuffer(old) == <<>>

\* line 14, and the loop of line 15 starts at row 0
NewData ==
    /\ pc = "newdata"
    /\ trace' = trace \cup {"newdata"}
    /\ data' = EmptyBuffer(data)
    /\ y' = 0
    /\ pc' = "loop"
    /\ UNCHANGED <<file, run, img, bmp, scratch, size, exc, stdout, stderr, exitCode, hist>>

\* line 15: the rows the loop visits
LoopRows_short == RowRange - 1
LoopRows == RowRange

\* lines 15-20: one pass of the outer loop; data.append takes 0..255 only
PackOneRow ==
    /\ pc = "loop"
    /\ y < LoopRows
    /\ trace' = trace \cup {"pack"}
    /\ LET s == PackRow(bmp, y, scratch) IN
       IF s = IndexErr
       THEN /\ Raise(Exc("IndexError", IndexMessage))
            /\ UNCHANGED <<data, y, scratch>>
       ELSE IF s \notin 0..255
       THEN /\ Raise(Exc("ValueError", ByteMessage))
            /\ scratch' = s
            /\ UNCHANGED <<data, y>>
       ELSE /\ scratch' = s
            /\ data' = Append(data, s)
            /\ y' = y + 1
            /\ UNCHANGED <<pc, exc>>
    /\ UNCHANGED <<file, run, img, bmp, size, stdout, stderr, exitCode, hist>>

\* [0] * n: empty for n <= 0
Zeros(n) == IF n <= 0 THEN <<>> ELSE [i \in 1..n |-> 0]

\* lines 22-23, once the loop has ended
Pad ==
    /\ pc = "loop"
    /\ y >= LoopRows
    /\ trace' = trace \cup {"pad"}
    /\ size' = Len(data)
    /\ data' = data \o Zeros(PadTo - Len(data))
    /\ pc' = "print1"
    /\ UNCHANGED <<file, run, img, bmp, y, scratch, exc, stdout, stderr, exitCode, hist>>

\* line 24
PrintBinary ==
    /\ pc = "print1"
    /\ trace' = trace \cup {"print1"}
    /\ stdout' = PrintTo(stdout, BinaryText(data))
    /\ pc' = "print2"
    /\ UNCHANGED <<file, run, img, bmp, data, y, scratch, size, exc, stderr, exitCode, hist>>

\* line 25; the callback returns and click's standalone mode calls sys.exit(0)
PrintHex ==
    /\ pc = "print2"
    /\ trace' = trace \cup {"print2"}
    /\ stdout' = PrintTo(stdout, HexText(data))
    /\ Raise(SystemExit(SuccessExit))
    /\ UNCHANGED <<file, run, img, bmp, data, y, scratch, size, stderr, exitCode, hist>>

\* lines 31-32: what the handler catches it prints, and the module ends; what
\* it does not catch ends the process: SystemExit with its code, anything
\* else with a traceback
Except ==
    /\ pc = "except"
    /\ trace' = trace \cup {"except"}
    /\ IF Catches(exc)
       THEN /\ stdout' = PrintTo(stdout, <<"error: ">> \o exc.msg)
            /\ exitCode' = HandledExit
            /\ UNCHANGED stderr
       ELSE IF exc.kind = "SystemExit"
       THEN /\ exitCode' = exc.code
            /\ UNCHANGED <<stdout, stderr>>
       ELSE /\ stderr' = stderr \o <<"Traceback (most recent call last):">> \o exc.msg
            /\ exitCode' = TracebackExit
            /\ UNCHANGED stdout
    /\ pc' = "exited"
    /\ UNCHANGED <<file, run, img, bmp, data, y, scratch, size, exc, hist>>

\* the same file is converted again by a new process; the locals of the new
\* process hold nothing the program may read before it assigns them, which
\* the model keeps as whatever the last run left
Rerun ==
    /\ pc = "exited"
    /\ run < Runs
    /\ hist' = Append(hist, [stdout |-> stdout, stderr |-> stderr, exitCode |-> exitCode])
    /\ run' = run + 1
    /\ pc' = "main"
    /\ exc' = NoExc
    /\ stdout' = <<>>
    /\ stderr' = <<>>
    /\ exitCode' = Running
    /\ trace' = {}
    /\ UNCHANGED <<file, img, bmp, data, y, scratch, size>>

Next ==
    \/ ClickMain
    \/ Open
    \/ SizeCheck
    \/ Convert
    \/ NewData
    \/ PackOneRow
    \/ Pad
    \/ PrintBinary
    \/ PrintHex
    \/ Except
    \/ Rerun

Spec == Init /\ [][Next]_vars

\* one run of the process, without the second conversion
NextOnce ==
    \/ ClickMain
    \/ Open
    \/ SizeCheck
    \/ Convert
    \/ NewData
    \/ PackOneRow
    \/ Pad
    \/ PrintBinary
    \/ PrintHex
    \/ Except

SpecOnce == Init /\ [][NextOnce]_vars

-----------------------------------------------------------------------------
(* Reading the output back *)

Range(s) == {s[i] : i \in 1..Len(s)}

Bit(n, k) == (n \div Pow2(k)) % 2

\* the value of a digit character
DigitVal(c) == CHOOSE k \in 0..15 : DigitChars[k + 1] = c

IsNumber(s, base) == s # <<>> /\ \A i \in 1..Len(s) : s[i] \in {DigitChars[k] : k \in 1..base}

RECURSIVE ParseNumber(_, _)
ParseNumber(s, base) ==
    IF s = <<>> THEN 0
    ELSE ParseNumber(SubSeq(s, 1, Len(s) - 1), base) * base + DigitVal(s[Len(s)])

\* the first position from i on where s holds c, Len(s) + 1 when there is none
FirstAt(s, c, i) ==
    IF \E j \in i..Len(s) : s[j] = c
    THEN CHOOSE j \in i..Len(s) : s[j] = c /\ \A m \in i..(j - 1) : s[m] # c
    ELSE Len(s) + 1

\* the lines of a stream: the text before each newline, and what follows the last
RECURSIVE LinesFrom(_, _)
LinesFrom(s, i) ==
    IF i > Len(s) THEN <<>>
    ELSE <<SubSeq(s, i, FirstAt(s, "\n", i) - 1)>> \o LinesFrom(s, FirstAt(s, "\n", i) + 1)

Lines(s) == LinesFrom(s, 1)

\* the items of a line between ", " separators
RECURSIVE ItemsFrom(_, _)
ItemsFrom(s, i) ==
    IF i > Len(s) + 1 THEN <<>>
    ELSE <<SubSeq(s, i, FirstAt(s, ",", i) - 1)>> \o ItemsFrom(s, FirstAt(s, ",", i) + 2)

Items(s) == ItemsFrom(s, 1)

IsErrorLine(l) == Len(l) >= 2 /\ l[1] = "error: "
IsBinaryLine(l) == Len(l) = 8 /\ \A i \in 1..8 : l[i] \in {"0", "1"}
IsHexItem(t) == Len(t) >= 3 /\ t[1] = "0" /\ t[2] = "x" /\ IsNumber(SubSeq(t, 3, Len(t)), 16)

\* some line of byte output, binary or hex, is on standard output
HasByteOutput == \E L \in {Lines(stdout)} : \E i \in 1..Len(L) : ~IsErrorLine(L[i])
HasErrorLine == \E L \in {Lines(stdout)} : \E i \in 1..Len(L) : IsErrorLine(L[i])

\* standard output is one line, "error: " and a message
OneErrorLine ==
    /\ stdout # <<>>
    /\ stdout[Len(stdout)] = "\n"
    /\ \E L \in {Lines(stdout)} : Len(L) = 1 /\ IsErrorLine(L[1])

\* the run has ended
Exited == pc = "exited"
\* the run went through to the last print
Succeeded == "print2" \in trace
\* the input makes the run fail
RunFails == file.fault # "none" \/ file.size # <<5, 8>>
\* the run is past the padding step: the buffer is the one printed
Padded == "pad" \in trace

\* the pixel of column x, row yy of the 5x8 input
PixelAt(x, yy) == file.bits[yy * 5 + x + 1]

-----------------------------------------------------------------------------
(* The buffer *)

\* C1: the buffer a run prints has exactly 8 bytes, and bits 0, 1 and 2 of
\* each are 0: every byte is a multiple of 8 in 0..248
C1_EightBytesLowBitsZero ==
    Padded =>
        /\ Len(data) = 8
        /\ \A i \in 1..Len(data) :
              /\ data[i] \in 0..248
              /\ data[i] % 8 = 0
              /\ Bit(data[i], 0) = 0 /\ Bit(data[i], 1) = 0 /\ Bit(data[i], 2) = 0

\* a run has succeeded on an image with a black pixel in column 4
C1_Witness ==
    /\ Exited /\ Succeeded /\ exitCode = 0
    /\ \E yy \in 0..7 : PixelAt(4, yy) = Black /\ data[yy + 1] >= 8

\* C2: bit 7 - x of byte y is 0 for a white pixel (x, y) and 1 for a black
\* one, for every row packed so far
C2_BitIsInvertedPixel ==
    "newdata" \in trace =>
        \A yy \in 0..7 : \A x \in 0..4 :
            yy < Len(data) =>
                Bit(data[yy + 1], 7 - x) = (IF PixelAt(x, yy) = White THEN 0 ELSE 1)

\* a run has packed an image with both a white and a black pixel
C2_Witness ==
    /\ Exited /\ Succeeded /\ Len(data) = 8
    /\ \E p \in Pixels : file.bits[p] = White
    /\ \E p \in Pixels : file.bits[p] = Black

\* lines 15-20 as a function of the pixel data: the buffer after the rows
\* from yy on, s being scratch and d the buffer so far
RECURSIVE PackFrom(_, _, _, _)
PackFrom(b, yy, s, d) ==
    IF yy >= LoopRows THEN d
    ELSE LET t == PackRow(b, yy, s) IN
         IF t \notin 0..255 THEN d ELSE PackFrom(b, yy + 1, t, Append(d, t))

\* the bytes a and b differ in bit k and in no other bit
DifferInBit(a, b, k) ==
    /\ Bit(a, k) # Bit(b, k)
    /\ a + Pow2(k) * Bit(b, k) = b + Pow2(k) * Bit(a, k)

\* C10: toggling one pixel (x, y) of the input toggles bit 7 - x of byte y
\* and leaves every other bit of every byte as it is
C10_OnePixelOneBit ==
    (Exited /\ Succeeded) =>
        \A p \in Pixels :
            \A other \in {PackFrom(Flip(file.bits, {p}), 0, 0, EmptyBuffer(data))} :
                /\ Len(other) = Len(data)
                /\ \A r \in 1..Len(data) :
                      IF r = ((p - 1) \div 5) + 1
                      THEN DifferInBit(other[r], data[r], 7 - ((p - 1) % 5))
                      ELSE other[r] = data[r]

\* a run has succeeded on an image with black pixels in two rows
C10_Witness ==
    /\ Exited /\ Succeeded
    /\ \E r1, r2 \in 1..8 : r1 < r2 /\ data[r1] > 0 /\ data[r2] > 0 /\ data[r1] < 248

-----------------------------------------------------------------------------
(* Failures *)

\* the statements from the binarization on
Processing == {"convert", "newdata", "pack", "pad", "print1", "print2"}

\* the (W, H) a text spells out, <<-1, -1>> when it spells none
SizeIn(l) ==
    IF {"(", ",", ")"} \subseteq Range(l)
    THEN LET w == SubSeq(l, FirstAt(l, "(", 1) + 1, FirstAt(l, ",", 1) - 1)
             h == SubSeq(l, FirstAt(l, ",", 1) + 2, FirstAt(l, ")", 1) - 1)
         IN IF IsNumber(w, 10) /\ IsNumber(h, 10)
            THEN <<ParseNumber(w, 10), ParseNumber(h, 10)>>
            ELSE <<-1, -1>>
    ELSE <<-1, -1>>

\* the file decodes to an image of a size other than 5x8
WrongSize == file.fault \notin {"path", "open"} /\ file.size # <<5, 8>>

\* C3: an image of another size is neither binarized nor packed, nothing of
\* a byte buffer is printed, and the run ends with an error message that
\* holds the size of the image
C3_WrongSizeRejected ==
    WrongSize =>
        /\ trace \cap Processing = {}
        /\ ~HasByteOutput
        /\ Exited => /\ OneErrorLine
                     /\ SizeIn(stdout) = file.size

\* a 10x10 image has been rejected
C3_Witness ==
    /\ Exited /\ WrongSize /\ file.size = <<10, 10>>
    /\ "check" \in trace /\ HasErrorLine

\* the top-level handler caught the failure: one error line and nothing else,
\* no usage text or traceback, a normal end of the module
HandledByTop ==
    /\ OneErrorLine
    /\ stderr = <<>>
    /\ exc.kind \in ExceptionClasses
    /\ exitCode = 0

\* C4 as stated: every failing run, a bad path included, ends in the
\* top-level handler with one error line
C4_EveryFailureHandled ==
    (Exited /\ RunFails) => HandledByTop

\* C4 amended: a failure of the decoding, the size check or what follows ends
\* in the top-level handler with one error line; a bad path is reported by
\* click on standard error with exit status 2 and prints no error line
C4_FailureAfterPathCheckHandled ==
    (Exited /\ RunFails) =>
        IF file.fault = "path"
        THEN /\ stdout = <<>>
             /\ stderr # <<>>
             /\ exc.kind = "SystemExit"
             /\ exitCode = 2
        ELSE HandledByTop

\* an image that cannot be decoded has been reported by the handler
C4_Witness ==
    /\ Exited /\ file.fault \in {"open", "load"} /\ file.size = <<5, 8>>
    /\ HasErrorLine /\ exitCode = 0

\* C5: byte output is printed only once 8 rows are packed and the padding
\* is done, and never together with an error line
C5_NoPartialOutput ==
    /\ HasByteOutput => (Padded /\ y >= 8 /\ Len(data) = 8 /\ ~HasErrorLine)
    /\ HasErrorLine => ~HasByteOutput
    /\ (Exited /\ ~Succeeded) => ~HasByteOutput

\* a run has printed the binary lines and not yet the hex line
C5_Witness ==
    /\ pc = "print2" /\ Padded
    /\ HasByteOutput /\ Len(Lines(stdout)) = 8

\* C8: the exit status is 0 after a success and after a failure the handler
\* has printed
C8_ExitStatusZero ==
    (Exited /\ (Succeeded \/ HasErrorLine)) => exitCode = 0

\* a wrong size has been reported and the process has ended
C8_Witness ==
    /\ Exited /\ ~Succeeded /\ HasErrorLine /\ file.fault = "none"
    /\ exitCode = 0

-----------------------------------------------------------------------------
(* Output *)

\* the binary line spells byte b, most significant bit first
SpellsBinary(l, b) ==
    /\ IsBinaryLine(l)
    /\ \A i \in 1..8 : l[i] = (IF Bit(b, 8 - i) = 1 THEN "1" ELSE "0")
    /\ ParseNumber(l, 2) = b

\* the hex line spells the bytes of d in order
SpellsHex(l, d) ==
    \E T \in {Items(l)} :
        /\ Len(T) = Len(d)
        /\ \A i \in 1..Len(d) :
              /\ IsHexItem(T[i])
              /\ ParseNumber(SubSeq(T[i], 3, Len(T[i])), 16) = d[i]

\* C7: the output is the 8 bytes of the buffer in row order as 8 binary
\* lines, then one line of the same bytes in hex; the hex line comes last
C7_BinaryLinesThenHexLine ==
    \E L \in {Lines(stdout)} :
        /\ (pc = "print2" \/ Succeeded) =>
              /\ Len(data) = 8
              /\ Len(L) >= 8
              /\ \A r \in 1..8 : SpellsBinary(L[r], data[r])
        /\ pc = "print2" => Len(L) = 8
        /\ Succeeded =>
              /\ Len(L) = 9
              /\ SpellsHex(L[9], data)
              /\ stdout[Len(stdout)] = "\n"
        /\ \A i \in 1..Len(L) : "x" \in Range(L[i]) => i = 9

\* a run has printed 0xf8 for a black row and 0x0 or more for the others
C7_Witness ==
    /\ Exited /\ Succeeded
    /\ \E r \in 1..8 : data[r] = 248 /\ Lines(stdout)[r] = <<"1", "1", "1", "1", "1", "0", "0", "0">>
    /\ \E r \in 1..8 : data[r] < 248

C9_PaddingIsNoOp ==
    [][(pc = "loop" /\ pc' = "print1") =>
          (Len(data) = 8 /\ size' = 8 /\ data' = data /\ Zeros(8 - size') = <<>>)]_vars

\* a run is past the padding with the 8 packed bytes
C9_Witness ==
    /\ pc = "print1" /\ Padded /\ size = 8 /\ Len(data) = 8
    /\ \E r \in 1..8 : data[r] > 0

====
